---- MODULE Spec2Model ----
(***************************************************************************)
(* Model of autoschematic's Python connector interface                     *)
(* (autoschematic_connector/lib.py) and of the release-time version check  *)
(* (scripts/version_check.py).                                             *)
(*                                                                         *)
(* Python strings that the code inspects character by character (the two   *)
(* version arguments) are sequences of one-character strings.  Strings the *)
(* code treats as opaque (addresses, prefixes, definitions) are TLA+       *)
(* strings.                                                                *)
(***************************************************************************)
EXTENDS Integers, Sequences, FiniteSets

VARIABLES
    \* ---- scripts/version_check.py: one run of the script ----
    sys_argv,      \* sys.argv: the script name, then the arguments
    pc,            \* the line the run is at ("idle" when no run is modelled)
    meta_str,      \* <<>> while unbound, <<s>> once bound to the string s
    pkg_str,       \* <<>> while unbound, <<s>> once bound to the string s
    meta,          \* meta_str.split("."), <<>> while unbound
    pkg,           \* pkg_str.split("."), <<>> while unbound
    stdout,        \* the lines printed so far
    exit_status,   \* <<>> while running, <<n>> after exit(n)
    \* ---- autoschematic_connector/lib.py ----
    cls,           \* the most derived class of the Connector hierarchy
    construct,     \* outcome of the latest attempt to instantiate cls
    obj,           \* the latest instance that construction yielded
    lastCall,      \* the latest call of an interface body and its result
    prevCall       \* the call before it

vcVars  == <<sys_argv, pc, meta_str, pkg_str, meta, pkg, stdout, exit_status>>
libVars == <<cls, construct, obj, lastCall, prevCall>>
vars    == <<sys_argv, pc, meta_str, pkg_str, meta, pkg, stdout, exit_status,
             cls, construct, obj, lastCall, prevCall>>

-----------------------------------------------------------------------------
(* Bounds of the model.                                                    *)

MaxMajor == 1      \* major components 0..MaxMajor
MaxMinor == 1      \* minor components 0..MaxMinor
MaxPatch == 10     \* patch components 0..MaxPatch (reaches two digits)
MaxV     == 2      \* up to MaxV leading "v" on a version argument
MaxDepth == 2      \* subclasses derived below Connector

-----------------------------------------------------------------------------
(* Python string primitives used by version_check.py.                      *)

DigitChars == <<"0", "1", "2", "3", "4", "5", "6", "7", "8", "9">>

IsDigit(c) == \E i \in 1..10 : DigitChars[i] = c

DigitVal(c) == (CHOOSE i \in 1..10 : DigitChars[i] = c) - 1

\* str(n) for n >= 0: the canonical decimal writing.
RECURSIVE Dec(_)
Dec(n) ==
    IF n < 10 THEN <<DigitChars[n + 1]>>
    ELSE Dec(n \div 10) \o <<DigitChars[(n % 10) + 1]>>

\* s.split("."): cut at every "."; always at least one part.
RECURSIVE Split(_)
Split(s) ==
    IF \A i \in 1..Len(s) : s[i] # "."
    THEN <<s>>
    ELSE LET i == CHOOSE k \in 1..Len(s) :
                      s[k] = "." /\ \A j \in 1..(k - 1) : s[j] # "."
         IN  <<SubSeq(s, 1, i - 1)>> \o Split(SubSeq(s, i + 1, Len(s)))

\* s.strip(): int() ignores surrounding whitespace.
RECURSIVE StripSpaces(_)
StripSpaces(s) ==
    IF s = <<>> THEN s
    ELSE IF Head(s) = " " THEN StripSpaces(Tail(s))
    ELSE IF s[Len(s)] = " " THEN StripSpaces(SubSeq(s, 1, Len(s) - 1))
    ELSE s

\* The digits of a signless int literal: digits, with single underscores
\* allowed between two digits.
IsDigitGroup(s) ==
    /\ s # <<>>
    /\ \A i \in 1..Len(s) : IsDigit(s[i]) \/ s[i] = "_"
    /\ IsDigit(s[1])
    /\ IsDigit(s[Len(s)])
    /\ \A i \in 1..(Len(s) - 1) : ~(s[i] = "_" /\ s[i + 1] = "_")

RECURSIVE DigitGroupVal(_, _)
DigitGroupVal(s, acc) ==
    IF s = <<>> THEN acc
    ELSE IF Head(s) = "_" THEN DigitGroupVal(Tail(s), acc)
    ELSE DigitGroupVal(Tail(s), 10 * acc + DigitVal(Head(s)))

\* int(s), base 10: [ok |-> FALSE] stands for ValueError.
ParseInt(s) ==
    LET t    == StripSpaces(s)
        sign == IF t # <<>> /\ Head(t) \in {"+", "-"} THEN Head(t) ELSE ""
        body == IF sign = "" THEN t ELSE Tail(t)
    IN  IF IsDigitGroup(body)
        THEN [ok |-> TRUE,
              val |-> IF sign = "-" THEN 0 - DigitGroupVal(body, 0)
                      ELSE DigitGroupVal(body, 0)]
        ELSE [ok |-> FALSE, val |-> 0]

IntOk(s) == ParseInt(s).ok

IntVal(s) == ParseInt(s).val

-----------------------------------------------------------------------------
(* The inputs of a run of version_check.py.                                *)

Join3(a, b, c) == a \o <<".">> \o b \o <<".">> \o c

\* Versions written canonically: X.Y.Z, each component a plain decimal.
CanonicalVersions ==
    {Join3(Dec(x), Dec(y), Dec(z)) :
        x \in 0..MaxMajor, y \in 0..MaxMinor, z \in 0..MaxPatch}

\* Versions written otherwise: components that int() accepts in another
\* writing (leading zero, sign, whitespace, underscore), components it
\* rejects, and texts that do not split into three components.
OddVersions ==
    { <<>>,
      <<".">>,
      <<".", ".">>,
      <<"1", ".", "0">>,
      <<"1", ".", "0", ".", "0", ".", "0">>,
      <<"1", ".", ".", "0">>,
      <<"0", "1", ".", "0", ".", "0">>,
      <<"1", ".", "0", "0", ".", "0">>,
      <<"1", ".", "0", ".", "0", "9">>,
      <<"0", "1", ".", "0", "0", ".", "1", "0">>,
      <<"+", "1", ".", "0", ".", "0">>,
      <<"1", ".", "0", ".", "-", "1">>,
      <<"1", ".", "0", ".", " ", "1">>,
      <<"1", ".", "0", ".", "1", "_", "0">>,
      <<"1", ".", "0", ".", "1", "_">>,
      <<"1", ".", "0", ".", "x">>,
      <<"1", ".", "0", ".", "1", "v">> }

VersionTexts == CanonicalVersions \cup OddVersions

RECURSIVE WithV(_, _)
WithV(k, s) == IF k = 0 THEN s ELSE <<"v">> \o WithV(k - 1, s)

MetaArgs == {WithV(k, s) : k \in 0..1, s \in VersionTexts}

PkgArgs == {WithV(k, s) : k \in 0..MaxV, s \in VersionTexts}

ScriptName == <<"version_check.py">>

\* sys.argv of a run: no argument, one, two, or two and a spare one.
ArgvInputs ==
    {ScriptName}
        \cup {ScriptName \o <<m>> : m \in {<<"1", ".", "0", ".", "0">>, <<>>}}
        \cup {ScriptName \o <<m, p>> : m \in MetaArgs, p \in PkgArgs}
        \cup {ScriptName \o <<m, m, m>> : m \in {<<"1", ".", "0", ".", "0">>}}

-----------------------------------------------------------------------------
(* scripts/version_check.py, statement by statement.                       *)

Unbound == <<>>

Bound(s) == <<s>>

UsageLine == [line |-> "usage"]

FailureLine(m, p) == [line |-> "failed", meta |-> m, pkg |-> p]

\* sys.argv[1] and sys.argv[2] exist (otherwise IndexError).
HasArg(argv, i) == Len(argv) >= i + 1

\* Variant: every leading "v" is removed (pkg_str.lstrip("v")).
RECURSIVE StripLeadingV_All(_)
StripLeadingV_All(s) ==
    IF s # <<>> /\ s[1] = "v" THEN StripLeadingV_All(Tail(s)) ELSE s

\* if pkg_str[0] == "v": pkg_str = pkg_str[1:]
StripLeadingV(s) == IF s[1] = "v" THEN Tail(s) ELSE s

\* Variant: further components are tolerated.
LenOk_AtLeast(parts) == Len(parts) >= 3

\* assert len(meta) == 3 / assert len(pkg) == 3
LenOk(parts) == Len(parts) = 3

\* assert meta[0] == pkg[0] / assert meta[1] == pkg[1]: the strings are compared.
ComponentEq(a, b) == a = b

\* Python's order on the characters the inputs use (their code points).
CharOrder ==
    <<" ", "+", "-", ".", "0", "1", "2", "3", "4", "5", "6", "7", "8", "9",
      "_", "v", "x">>

CharRank(c) == CHOOSE i \in 1..Len(CharOrder) : CharOrder[i] = c

\* a <= b on Python strings.
RECURSIVE StrLeq(_, _)
StrLeq(a, b) ==
    IF a = <<>> THEN TRUE
    ELSE IF b = <<>> THEN FALSE
    ELSE IF Head(a) # Head(b) THEN CharRank(Head(a)) < CharRank(Head(b))
    ELSE StrLeq(Tail(a), Tail(b))

\* Variant: the patch components are compared as strings, like the others.
PatchLeq_AsStrings(a, b) == StrLeq(a, b)

\* Variant: the package patch must be strictly newer.
PatchLeq_Strict(a, b) == IntVal(a) < IntVal(b)

\* assert int(meta[2]) <= int(pkg[2])
PatchLeq(a, b) == IntVal(a) <= IntVal(b)

ReadArgs ==
    /\ pc = "L9"
    /\ IF HasArg(sys_argv, 1) /\ HasArg(sys_argv, 2)
       THEN /\ meta_str' = Bound(sys_argv[2])
            /\ pkg_str' = Bound(sys_argv[3])
            /\ pc' = "L18"
            /\ UNCHANGED <<stdout, exit_status>>
       ELSE /\ meta_str' = IF HasArg(sys_argv, 1) THEN Bound(sys_argv[2]) ELSE Unbound
            /\ pkg_str' = Unbound
            /\ stdout' = Append(stdout, UsageLine)
            /\ exit_status' = <<1>>
            /\ pc' = "exited"
    /\ UNCHANGED <<sys_argv, meta, pkg, libVars>>

StripV ==
    /\ pc = "L18"
    /\ IF pkg_str[1] = <<>>
       THEN pc' = "L36" /\ UNCHANGED pkg_str
       ELSE pc' = "L20" /\ pkg_str' = Bound(StripLeadingV(pkg_str[1]))
    /\ UNCHANGED <<sys_argv, meta_str, meta, pkg, stdout, exit_status, libVars>>

SplitVersions ==
    /\ pc = "L20"
    /\ meta' = Split(meta_str[1])
    /\ pkg' = Split(pkg_str[1])
    /\ pc' = "L22"
    /\ UNCHANGED <<sys_argv, meta_str, pkg_str, stdout, exit_status, libVars>>

AssertLengths ==
    /\ pc = "L22"
    /\ pc' = IF LenOk(meta) /\ LenOk(pkg) THEN "L25" ELSE "L36"
    /\ UNCHANGED <<sys_argv, meta_str, pkg_str, meta, pkg, stdout, exit_status, libVars>>

ParseInts ==
    /\ pc = "L25"
    /\ pc' = IF /\ \A i \in 1..3 : IntOk(meta[i])
                /\ \A i \in 1..3 : IntOk(pkg[i])
             THEN "L33" ELSE "L36"
    /\ UNCHANGED <<sys_argv, meta_str, pkg_str, meta, pkg, stdout, exit_status, libVars>>

AssertVersions ==
    /\ pc = "L33"
    /\ pc' = IF /\ ComponentEq(meta[1], pkg[1])
                /\ ComponentEq(meta[2], pkg[2])
                /\ PatchLeq(meta[3], pkg[3])
             THEN "L40" ELSE "L36"
    /\ UNCHANGED <<sys_argv, meta_str, pkg_str, meta, pkg, stdout, exit_status, libVars>>

\* except: print(f"... {meta_str} ... {pkg_str}"); exit(1).  Reading a name
\* that is still unbound would raise NameError out of the handler.
ExceptHandler ==
    /\ pc = "L36"
    /\ IF meta_str = Unbound \/ pkg_str = Unbound
       THEN /\ pc' = "uncaught"
            /\ exit_status' = <<1>>
            /\ UNCHANGED stdout
       ELSE /\ stdout' = Append(stdout, FailureLine(meta_str[1], pkg_str[1]))
            /\ exit_status' = <<1>>
            /\ pc' = "exited"
    /\ UNCHANGED <<sys_argv, meta_str, pkg_str, meta, pkg, libVars>>

ExitZero ==
    /\ pc = "L40"
    /\ exit_status' = <<0>>
    /\ pc' = "exited"
    /\ UNCHANGED <<sys_argv, meta_str, pkg_str, meta, pkg, stdout, libVars>>

\* The exit status of a whole run on the arguments (m, p): the statements
\* above, composed.
ExitStatus(m, p) ==
    IF p = <<>> THEN 1
    ELSE LET q  == StripLeadingV(p)
             ms == Split(m)
             ps == Split(q)
         IN  IF ~(LenOk(ms) /\ LenOk(ps)) THEN 1
             ELSE IF ~(\A i \in 1..3 : IntOk(ms[i]) /\ IntOk(ps[i])) THEN 1
             ELSE IF /\ ComponentEq(ms[1], ps[1])
                     /\ ComponentEq(ms[2], ps[2])
                     /\ PatchLeq(ms[3], ps[3])
                  THEN 0 ELSE 1

-----------------------------------------------------------------------------
(* autoschematic_connector/lib.py: values.                                 *)

None == [tag |-> "None"]

PyStr(s) == [tag |-> "str", val |-> s]

PyBool(b) == [tag |-> "bool", val |-> b]

PyList(items) == [tag |-> "list", items |-> items]

GetResourceResponse(resource_definition, outputs) ==
    [tag |-> "GetResourceResponse",
     resource_definition |-> resource_definition,
     outputs |-> outputs]

\* Arguments the orchestrator passes: addresses (prefix already stripped),
\* registration prefixes, resource definitions, op definitions, secret paths.
Addrs == {"snowflake/databases/SOME_DB/database.sql", "something/else/unrelated"}

Prefixes == {"snowflake", "aws"}

Definitions == {None, PyStr("zone: example.com"), PyStr("zone: example.org")}

OpDefinitions == {"create", "delete"}

SecretPaths == {"secrets/token", "secrets/missing"}

-----------------------------------------------------------------------------
(* class Connector(ABC) and the classes derived from it.                   *)

\* The methods class Connector defines.
MethodNames == {"__init__", "filter", "list", "get", "plan", "op_exec"}

\* Variant: plan lacks its @abstractmethod decorator.
AbstractMethods_PlanNotAbstract ==
    {"__init__", "filter", "list", "get", "op_exec"}

\* The methods of Connector that carry @abstractmethod.
AbstractMethods ==
    {"__init__", "filter", "list", "get", "plan", "op_exec"}

\* __abstractmethods__ of a class derived from a base with the abstract
\* methods base_abstract, whose body defines the methods in namespace.
SubclassAbstractMethods(base_abstract, namespace) == base_abstract \ namespace

ConnectorClass ==
    [depth |-> 0, abstractmethods |-> AbstractMethods, overridden |-> {}]

NoObject == [exists |-> FALSE]

NoCall == [op |-> "none"]

\* def __init__(self, prefix): pass
Connector_init(self, prefix) == self

\* def filter(self, addr): return False
Connector_filter(self, addr) == [ret |-> PyBool(FALSE), self |-> self]

\* Variant: list returns no value.
Connector_list_None(self, subpath) == [ret |-> None, self |-> self]

\* def list(self, subpath): return []
Connector_list(self, subpath) == [ret |-> PyList(<<>>), self |-> self]

\* Variant: get remembers the addresses it was asked for and answers from
\* that memory.
Connector_get_Cached(self, addr) ==
    [ret  |-> IF <<"seen", addr>> \in self.dict
              THEN GetResourceResponse("", None) ELSE None,
     self |-> [self EXCEPT !.dict = @ \cup {<<"seen", addr>>}]]

\* def get(self, addr): return None
Connector_get(self, addr) == [ret |-> None, self |-> self]

\* def plan(self, addr, current, desired): return None
Connector_plan(self, addr, current, desired) == [ret |-> None, self |-> self]

\* def op_exec(self, addr_s, op_s): return None
Connector_op_exec(self, addr_s, op_s) == [ret |-> None, self |-> self]

\* Variant: the secret's path is handed back.
read_secret_Echo(path) == PyStr(path)

\* def read_secret(path): return None
read_secret(path) == None

\* class Sub(<cls>): defines the methods in namespace.
DefineSubclass(namespace) ==
    /\ pc = "idle"
    /\ cls.depth < MaxDepth
    /\ cls' = [depth |-> cls.depth + 1,
               abstractmethods |->
                   SubclassAbstractMethods(cls.abstractmethods, namespace),
               overridden |-> cls.overridden \cup namespace]
    /\ UNCHANGED <<construct, obj, lastCall, prevCall, vcVars>>

\* <cls>(prefix): object creation refuses a class with abstract methods
\* (TypeError); otherwise the subclass's __init__ runs, which may keep the
\* prefix and reaches Connector.__init__.
Instantiate(prefix, keeps_prefix) ==
    /\ pc = "idle"
    /\ IF cls.abstractmethods # {}
       THEN /\ construct' = [result |-> "TypeError", depth |-> cls.depth,
                             overridden |-> cls.overridden]
            /\ UNCHANGED obj
       ELSE /\ construct' = [result |-> "ok", depth |-> cls.depth,
                             overridden |-> cls.overridden]
            /\ obj' = Connector_init(
                          [exists |-> TRUE,
                           overridden |-> cls.overridden,
                           dict |-> IF keeps_prefix
                                    THEN {<<"prefix", prefix>>} ELSE {}],
                          prefix)
    /\ UNCHANGED <<cls, lastCall, prevCall, vcVars>>

\* One call of an interface body on the instance, with its outcome.
Called(op, args, outcome) ==
    /\ pc = "idle"
    /\ obj.exists
    /\ lastCall' = [op |-> op, args |-> args, ret |-> outcome.ret]
    /\ prevCall' = lastCall
    /\ obj' = outcome.self
    /\ UNCHANGED <<cls, construct, vcVars>>

CallFilter(addr) ==
    Called("filter", <<addr>>, Connector_filter(obj, addr))

CallList(subpath) ==
    Called("list", <<subpath>>, Connector_list(obj, subpath))

CallGet(addr) ==
    Called("get", <<addr>>, Connector_get(obj, addr))

CallPlan(addr, current, desired) ==
    Called("plan", <<addr, current, desired>>,
           Connector_plan(obj, addr, current, desired))

CallOpExec(addr_s, op_s) ==
    Called("op_exec", <<addr_s, op_s>>, Connector_op_exec(obj, addr_s, op_s))

\* read_secret is a module function: it needs no instance.
CallReadSecret(path) ==
    /\ pc = "idle"
    /\ lastCall' = [op |-> "read_secret", args |-> <<path>>, ret |-> read_secret(path)]
    /\ prevCall' = lastCall
    /\ UNCHANGED <<cls, construct, obj, vcVars>>

LibInit ==
    /\ cls = ConnectorClass
    /\ construct = [result |-> "none"]
    /\ obj = NoObject
    /\ lastCall = NoCall
    /\ prevCall = NoCall

Init ==
    /\ sys_argv = <<>>
    /\ pc = "idle"
    /\ meta_str = Unbound
    /\ pkg_str = Unbound
    /\ meta = Unbound
    /\ pkg = Unbound
    /\ stdout = <<>>
    /\ exit_status = <<>>
    /\ LibInit

Next ==
    \/ \E namespace \in SUBSET MethodNames : DefineSubclass(namespace)
    \/ \E prefix \in Prefixes, keeps_prefix \in BOOLEAN :
           Instantiate(prefix, keeps_prefix)
    \/ \E addr \in Addrs : CallFilter(addr)
    \/ \E subpath \in Addrs : CallList(subpath)
    \/ \E addr \in Addrs : CallGet(addr)
    \/ \E addr \in Addrs, current \in Definitions, desired \in Definitions :
           CallPlan(addr, current, desired)
    \/ \E addr_s \in Addrs, op_s \in OpDefinitions : CallOpExec(addr_s, op_s)
    \/ \E path \in SecretPaths : CallReadSecret(path)

Spec == Init /\ [][Next]_vars

InitVC ==
    /\ sys_argv \in ArgvInputs
    /\ pc = "L9"
    /\ meta_str = Unbound
    /\ pkg_str = Unbound
    /\ meta = Unbound
    /\ pkg = Unbound
    /\ stdout = <<>>
    /\ exit_status = <<>>
    /\ LibInit

NextVC ==
    \/ ReadArgs
    \/ StripV
    \/ SplitVersions
    \/ AssertLengths
    \/ ParseInts
    \/ AssertVersions
    \/ ExceptHandler
    \/ ExitZero

SpecVC == InitVC /\ [][NextVC]_vars

-----------------------------------------------------------------------------
(* Properties of version_check.py.                                         *)

Exited == pc = "exited"

TwoArgs == Len(sys_argv) >= 3

MetaArg == sys_argv[2]

PkgArg == sys_argv[3]

StartsWithV(s) == s # <<>> /\ s[1] = "v"

\* A non-negative decimal with no sign, whitespace or leading zero.
IsCanonicalComponent(s) ==
    /\ s # <<>>
    /\ \A i \in 1..Len(s) : IsDigit(s[i])
    /\ (Len(s) > 1 => s[1] # "0")

IsCanonicalVersion(v) ==
    /\ Len(Split(v)) = 3
    /\ \A i \in 1..3 : IsCanonicalComponent(Split(v)[i])

\* The value of a canonical component, read back through str().
RECURSIVE Pow10(_)
Pow10(k) == IF k = 0 THEN 1 ELSE 10 * Pow10(k - 1)

CanonicalVal(s) == CHOOSE n \in 0..(Pow10(Len(s)) - 1) : Dec(n) = s

\* Three components, each of which int() accepts.
IsXYZ(v) ==
    /\ Len(Split(v)) = 3
    /\ \A i \in 1..3 : IntOk(Split(v)[i])

\* A finished run's status is the composed ExitStatus of its two arguments.
RunMatchesExitStatus ==
    (Exited /\ TwoArgs) => exit_status = <<ExitStatus(MetaArg, PkgArg)>>

\* C1: on canonically written META and PKG the script exits 0 exactly when
\* the majors are equal, the minors are equal and META.patch <= PKG.patch as
\* integers; otherwise it exits 1.
C1_CanonicalVerdict ==
    (Exited /\ TwoArgs /\ IsCanonicalVersion(MetaArg) /\ IsCanonicalVersion(PkgArg))
        => LET m == Split(MetaArg)
               p == Split(PkgArg)
               agree == /\ CanonicalVal(m[1]) = CanonicalVal(p[1])
                        /\ CanonicalVal(m[2]) = CanonicalVal(p[2])
                        /\ CanonicalVal(m[3]) <= CanonicalVal(p[3])
           IN  exit_status = IF agree THEN <<0>> ELSE <<1>>

\* A run on x.y.9 against x.y.10 that has exited 0.
C1_Witness ==
    /\ Exited /\ TwoArgs
    /\ IsCanonicalVersion(MetaArg) /\ IsCanonicalVersion(PkgArg)
    /\ Split(MetaArg)[3] = <<"9">>
    /\ Split(PkgArg)[3] = <<"1", "0">>
    /\ exit_status = <<0>>

\* C2: whenever all six components parse as integers, equal major values,
\* equal minor values and package patch >= metadata patch make the script
\* exit 0, however the integers are written.
C2_IntegerComparison ==
    (Exited /\ TwoArgs /\ IsXYZ(MetaArg) /\ IsXYZ(PkgArg))
        => LET m == Split(MetaArg)
               p == Split(PkgArg)
           IN  (/\ IntVal(m[1]) = IntVal(p[1])
                /\ IntVal(m[2]) = IntVal(p[2])
                /\ IntVal(m[3]) <= IntVal(p[3]))
                   => exit_status = <<0>>

\* C8: a run ends with status 0 or 1 and never by an uncaught exception;
\* status 0 is reached only with every check passed; fewer than two
\* arguments print the usage line and exit 1 with nothing split or compared;
\* an empty version, one that is not three components, or a component that
\* is no integer prints the failure line and exits 1.
C8_ExitDiscipline ==
    /\ pc # "uncaught"
    /\ exit_status \in {<<>>, <<0>>, <<1>>}
    /\ (exit_status # <<>>) <=> Exited
    /\ exit_status = <<0>> =>
          /\ TwoArgs
          /\ stdout = <<>>
          /\ Len(meta) = 3 /\ Len(pkg) = 3
          /\ \A i \in 1..3 : IntOk(meta[i]) /\ IntOk(pkg[i])
          /\ meta[1] = pkg[1] /\ meta[2] = pkg[2]
          /\ IntVal(meta[3]) <= IntVal(pkg[3])
    /\ (Exited /\ ~TwoArgs) =>
          /\ exit_status = <<1>>
          /\ stdout = <<UsageLine>>
          /\ meta = Unbound /\ pkg = Unbound
    /\ (Exited /\ TwoArgs) =>
          LET q == IF StartsWithV(PkgArg) THEN Tail(PkgArg) ELSE PkgArg
              malformed ==
                  \/ MetaArg = <<>>
                  \/ PkgArg = <<>>
                  \/ Len(Split(MetaArg)) # 3
                  \/ Len(Split(q)) # 3
                  \/ \E i \in 1..3 : ~IntOk(Split(MetaArg)[i])
                  \/ \E i \in 1..3 : ~IntOk(Split(q)[i])
          IN  malformed =>
                  /\ exit_status = <<1>>
                  /\ Len(stdout) = 1
                  /\ stdout[1].line = "failed"

\* A run whose package version has four components and has exited 1 with
\* the failure line.
C8_Witness ==
    /\ Exited /\ TwoArgs
    /\ Len(meta) = 3
    /\ Len(pkg) = 4
    /\ exit_status = <<1>>
    /\ stdout = <<FailureLine(MetaArg, PkgArg)>>

\* C9: prefixing a package version X.Y.Z with "v" does not change the exit
\* status; exactly one leading "v" is removed from the package version; a
\* metadata version starting with "v" is left as it is and exits 1.
C9_LeadingV ==
    (Exited /\ TwoArgs) =>
        /\ (StartsWithV(PkgArg) /\ IsXYZ(Tail(PkgArg)))
              => exit_status = <<ExitStatus(MetaArg, Tail(PkgArg))>>
        /\ StartsWithV(PkgArg) => pkg_str = Bound(Tail(PkgArg))
        /\ (StartsWithV(PkgArg) /\ StartsWithV(Tail(PkgArg)))
              => exit_status = <<1>>
        /\ StartsWithV(MetaArg)
              => (meta_str = Bound(MetaArg) /\ exit_status = <<1>>)

\* A run on (X.Y.Z, vX.Y.Z) that has exited 0.
C9_Witness ==
    /\ Exited /\ TwoArgs
    /\ IsCanonicalVersion(MetaArg)
    /\ PkgArg = <<"v">> \o MetaArg
    /\ pkg_str = Bound(MetaArg)
    /\ exit_status = <<0>>

\* C10: over canonical versions, "exits 0" is reflexive, antisymmetric and
\* transitive, and stays 0 when the package patch grows.
C10_PartialOrder ==
    (Exited /\ TwoArgs /\ IsCanonicalVersion(MetaArg) /\ IsCanonicalVersion(PkgArg))
        => LET A == MetaArg
               B == PkgArg
               b == Split(B)
           IN  /\ A = B => exit_status = <<0>>
               /\ (exit_status = <<0>> /\ ExitStatus(B, A) = 0) => A = B
               /\ exit_status = <<0>> =>
                     \A C \in CanonicalVersions :
                         ExitStatus(B, C) = 0 => ExitStatus(A, C) = 0
               /\ exit_status = <<0>> =>
                     \A z \in 0..MaxPatch :
                         z >= CanonicalVal(b[3])
                             => ExitStatus(A, Join3(b[1], b[2], Dec(z))) = 0

\* A run on two different canonical versions that has exited 0.
C10_Witness ==
    /\ Exited /\ TwoArgs
    /\ IsCanonicalVersion(MetaArg) /\ IsCanonicalVersion(PkgArg)
    /\ MetaArg # PkgArg
    /\ exit_status = <<0>>

-----------------------------------------------------------------------------
(* Properties of the Connector interface.                                  *)

ContractOperations == {"__init__", "filter", "list", "get", "plan", "op_exec"}

DefaultBodyOps == {"filter", "list", "get", "plan", "op_exec"}

\* C3: constructing a class that leaves one of the six operations
\* unimplemented fails with an error and yields no instance; constructing
\* one that implements all six succeeds; Connector itself never constructs.
C3_ConstructionNeedsAllOperations ==
    /\ construct.result # "none" =>
          /\ construct.result \in {"ok", "TypeError"}
          /\ (construct.result = "ok") <=> (construct.overridden = ContractOperations)
          /\ construct.depth = 0 => construct.result = "TypeError"
    /\ obj.exists => obj.overridden = ContractOperations

\* An attempt to construct a second-level subclass that implements all but
\* one operation, refused with TypeError.
C3_Witness ==
    /\ construct.result = "TypeError"
    /\ construct.depth = 2
    /\ construct.overridden = ContractOperations \ {"plan"}

\* C4: plan, the interface's default body included, returns a sequence of
\* PlanElement for every (addr, current, desired) and never an absent result.
C4_PlanNeverAbsent ==
    lastCall.op = "plan" => (lastCall.ret # None /\ lastCall.ret.tag = "list")

\* C5: the default list body returns the empty sequence for every subpath,
\* never an absent result.
C5_ListReturnsEmptySequence ==
    lastCall.op = "list" => lastCall.ret = PyList(<<>>)

\* The default list body called on each of two subpaths in turn.
C5_Witness ==
    /\ lastCall.op = "list"
    /\ prevCall.op = "list"
    /\ lastCall.args # prevCall.args

\* C6: the default read_secret returns absent for every path, whatever was
\* called before it.
C6_ReadSecretAbsent ==
    lastCall.op = "read_secret" => lastCall.ret = None

\* read_secret called right after an op_exec.
C6_Witness ==
    /\ lastCall.op = "read_secret"
    /\ prevCall.op = "op_exec"

\* Two calls in a row of one default body with equal arguments give equal
\* results.
C7_SameArgsSameResult ==
    (/\ lastCall.op \in DefaultBodyOps
     /\ prevCall.op = lastCall.op
     /\ prevCall.args = lastCall.args)
        => prevCall.ret = lastCall.ret

\* A step that makes a call leaves the instance as it was.
C7_ObjectUnchanged ==
    (lastCall' # lastCall \/ prevCall' # prevCall) => obj' = obj

\* C7: after any sequence of calls of the default bodies, equal arguments
\* give equal results and every call leaves the connector object unchanged.
C7_Stateless == [](C7_SameArgsSameResult) /\ [][C7_ObjectUnchanged]_vars

\* get called twice in a row on the same address.
C7_Witness ==
    /\ lastCall.op = "get"
    /\ prevCall.op = "get"
    /\ prevCall.args = lastCall.args
    /\ obj.exists

====
